---- MODULE Spec2Model ----
(***************************************************************************)
(* Model of the rust_voronoi crate's Boundary Cell (src/src/cell.rs), its  *)
(* Lloyd relaxation layer (src/src/lloyd.rs) and the event queue contract. *)
(*                                                                         *)
(* f64 values are modelled as exact rationals extended with NaN and the    *)
(* two infinities: [k, n, d] with k in {"fin","nan","inf"}; a finite value *)
(* is n/d in lowest terms with d > 0, an infinity carries its sign in n.   *)
(***************************************************************************)
EXTENDS Integers, Sequences, FiniteSets, TLC

VARIABLES ctor, cell, call, queue, nextId, invalidated, popped, lloyd, cent

vars == <<ctor, cell, call, queue, nextId, invalidated, popped, lloyd, cent>>

cellVars == <<ctor, cell, call>>

queueVars == <<queue, nextId, invalidated, popped>>

lloydVars == <<lloyd, cent>>

(***************************************************************************)
(* Bounds                                                                  *)
(***************************************************************************)
\* boundary vertices handed to TryFrom lie on the grid 0..MaxCoord squared
MaxCoord == 1
\* TryFrom is given 0..MaxVerts vertices
MaxVerts == 3
\* Cell::new is given box sizes 1..MaxBox
MaxBox == 3
\* the polygons whose area is taken lie on the grid 0..MaxAreaCoord squared
MaxAreaCoord == 2
\* simple polygons have up to PolyVerts vertices on the grid
\* (0..PolyMaxX) x (0..PolyMaxY)
PolyMaxX == 3
PolyMaxY == 2
PolyVerts == 5
\* input sites and polygon vertices lie on the grid 0..MaxSite squared, inside
\* the boundary Cell::new(MaxSite)
MaxSite == 2
\* lloyd_relaxation is given 1..MaxPts points
MaxPts == 2
\* polygon_centroid is given 0..MaxPolyLen vertices
MaxPolyLen == 3
\* at most MaxEvents events are pushed on the event queue
MaxEvents == 3

(***************************************************************************)
(* f64 arithmetic                                                          *)
(***************************************************************************)
Abs(i) == IF i < 0 THEN -i ELSE i

Sgn(i) == IF i < 0 THEN -1 ELSE IF i = 0 THEN 0 ELSE 1

RECURSIVE GCD(_, _)
GCD(a, b) == IF b = 0 THEN a ELSE GCD(b, a % b)

NaN == [k |-> "nan", n |-> 0, d |-> 1]

Inf(s) == [k |-> "inf", n |-> s, d |-> 1]

Ratio(n, d) ==
    IF d = 1 THEN [k |-> "fin", n |-> n, d |-> 1]
    ELSE LET g == GCD(Abs(n), d)
         IN  [k |-> "fin", n |-> n \div g, d |-> d \div g]

Fin(i) == [k |-> "fin", n |-> i, d |-> 1]

FNeg(a) == IF a.k = "nan" THEN NaN ELSE [a EXCEPT !.n = -a.n]

FAdd(a, b) ==
    IF a.k = "nan" \/ b.k = "nan" THEN NaN
    ELSE IF a.k = "inf" /\ b.k = "inf" THEN (IF a.n = b.n THEN a ELSE NaN)
    ELSE IF a.k = "inf" THEN a
    ELSE IF b.k = "inf" THEN b
    ELSE Ratio(a.n * b.d + b.n * a.d, a.d * b.d)

FSub(a, b) == FAdd(a, FNeg(b))

FMul(a, b) ==
    IF a.k = "nan" \/ b.k = "nan" THEN NaN
    ELSE IF a.k = "inf" \/ b.k = "inf"
         THEN (IF a.n = 0 \/ b.n = 0 THEN NaN ELSE Inf(Sgn(a.n) * Sgn(b.n)))
    ELSE Ratio(a.n * b.n, a.d * b.d)

FDiv(a, b) ==
    IF a.k = "nan" \/ b.k = "nan" THEN NaN
    ELSE IF a.k = "inf" THEN (IF b.k = "inf" THEN NaN
                              ELSE Inf(a.n * (IF b.n < 0 THEN -1 ELSE 1)))
    ELSE IF b.k = "inf" THEN Fin(0)
    ELSE IF b.n = 0 THEN (IF a.n = 0 THEN NaN ELSE Inf(Sgn(a.n)))
    ELSE Ratio(a.n * b.d * Sgn(b.n), a.d * Abs(b.n))

FAbs(a) == IF a.k = "nan" THEN NaN ELSE [a EXCEPT !.n = Abs(a.n)]

\* f64::partial_cmp: None as soon as one side is NaN
PartialCmp(a, b) ==
    IF a.k = "nan" \/ b.k = "nan" THEN "None"
    ELSE LET s == IF a.k = "inf" /\ b.k = "inf" THEN Sgn(a.n - b.n)
                  ELSE IF a.k = "inf" THEN a.n
                  ELSE IF b.k = "inf" THEN -b.n
                  ELSE Sgn(a.n * b.d - b.n * a.d)
         IN  IF s < 0 THEN "Less" ELSE IF s = 0 THEN "Equal" ELSE "Greater"

\* the total order of the coordinate fields (Ord::cmp): NaN equals NaN and is
\* greater than every other value
OrdCmp(a, b) ==
    IF a.k = "nan" THEN (IF b.k = "nan" THEN "Equal" ELSE "Greater")
    ELSE IF b.k = "nan" THEN "Less"
    ELSE PartialCmp(a, b)

\* Rust's % on signed integers truncates toward zero
RustRem(a, b) == Sgn(a) * (Abs(a) % Abs(b))

(***************************************************************************)
(* Point                                                                   *)
(***************************************************************************)
Point(x, y) == [x |-> x, y |-> y]

PointAdd(p, q) == Point(FAdd(p.x, q.x), FAdd(p.y, q.y))

PointScale(p, s) == Point(FMul(p.x, s), FMul(p.y, s))

IsFinite(p) == p.x.k = "fin" /\ p.y.k = "fin"

HasNaN(p) == p.x.k = "nan" \/ p.y.k = "nan"

(***************************************************************************)
(* Cell  (src/src/cell.rs)                                                 *)
(***************************************************************************)
NoCell == [status |-> "none", boundary |-> <<>>]

NoCall == [op |-> "none", arg |-> <<>>, ret |-> <<>>, visited |-> 0]

\* faulty variant: the length check off by one
try_from_min_two(boundary) ==
    IF Len(boundary) < 2
    THEN [status |-> "err", boundary |-> <<>>]
    ELSE [status |-> "ok", boundary |-> boundary]

\* impl TryFrom<Vec<Point>> for Cell
try_from(boundary) ==
    IF Len(boundary) < 3
    THEN [status |-> "err", boundary |-> <<>>]
    ELSE [status |-> "ok", boundary |-> boundary]

\* Cell::new
new(boxsize) ==
    [status |-> "ok",
     boundary |-> << Point(Fin(0), Fin(0)), Point(boxsize, Fin(0)),
                     Point(boxsize, boxsize), Point(Fin(0), boxsize) >>]

\* faulty variant: the closing edge from the last vertex back to the first left out
sides_open(boundary) ==
    [i \in 1..(Len(boundary) - 1) |-> <<boundary[i], boundary[i + 1]>>]

\* Cell::sides: each vertex paired with its cyclic successor
sides(boundary) ==
    [i \in 1..Len(boundary) |-> <<boundary[i], boundary[(i % Len(boundary)) + 1]>>]

\* the value whose sign point_to_line reports
line_value(p, l0, l1) ==
    FSub(FMul(FSub(l1.x, l0.x), FSub(p.y, l0.y)),
         FMul(FSub(p.x, l0.x), FSub(l1.y, l0.y)))

\* faulty variant: an incomparable value read as "on the line"
point_to_line_nan_equal(p, l0, l1) ==
    LET o == PartialCmp(line_value(p, l0, l1), Fin(0))
    IN  IF o = "None" THEN "Equal" ELSE o

\* point_to_line
point_to_line(p, l0, l1) == PartialCmp(line_value(p, l0, l1), Fin(0))

\* faulty variant: the upward arm made exclusive at its upper end
UpArmsExclusiveEnd == { <<"Less", "Less">>, <<"Equal", "Less">> }

UpArms == { <<"Less", "Less">>, <<"Equal", "Less">>, <<"Less", "Equal">> }

DownArms == { <<"Greater", "Greater">>, <<"Greater", "Equal">>, <<"Equal", "Greater">> }

\* the body of the for loop of Cell::contains from edge i on; the result is
\* the returned bool and the number of edges the loop has visited
RECURSIVE contains_from(_, _, _, _)
contains_from(ss, i, acc, point) ==
    IF i > Len(ss) THEN [ret |-> RustRem(acc, 2) # 0, visited |-> Len(ss)]
    ELSE LET v0 == ss[i][1]
             v1 == ss[i][2]
             arm == <<OrdCmp(v0.y, point.y), OrdCmp(point.y, v1.y)>>
         IN  IF arm \in UpArms
             THEN LET o == point_to_line(point, v0, v1)
                  IN  CASE o = "Less" -> contains_from(ss, i + 1, acc + 1, point)
                        [] o = "Equal" -> [ret |-> TRUE, visited |-> i]
                        [] o = "Greater" -> contains_from(ss, i + 1, acc, point)
                        [] OTHER -> [ret |-> FALSE, visited |-> i]
             ELSE IF arm \in DownArms
             THEN LET o == point_to_line(point, v0, v1)
                  IN  CASE o = "Greater" -> contains_from(ss, i + 1, acc - 1, point)
                        [] o = "Equal" -> [ret |-> TRUE, visited |-> i]
                        [] o = "Less" -> contains_from(ss, i + 1, acc, point)
                        [] OTHER -> [ret |-> FALSE, visited |-> i]
             ELSE contains_from(ss, i + 1, acc, point)

\* Cell::contains
contains(boundary, point) == contains_from(sides(boundary), 1, 0, point)

\* the map and sum of Cell::area over the sides from i on, added to acc
RECURSIVE area_sum(_, _, _)
area_sum(ss, i, acc) ==
    IF i > Len(ss) THEN acc
    ELSE LET curr == ss[i][1]
             next == ss[i][2]
         IN  area_sum(ss, i + 1,
                      FAdd(acc, FMul(FAdd(next.x, curr.x), FSub(next.y, curr.y))))

\* Cell::area
area(boundary) == FDiv(FAbs(area_sum(sides(boundary), 1, Fin(0))), Fin(2))

(***************************************************************************)
(* Inputs of the cell specification                                        *)
(***************************************************************************)
\* the sequences of n elements of S
SeqsOfLen(S, n) == [1..n -> S]

GridPoints == { Point(Fin(x), Fin(y)) : x \in 0..MaxCoord, y \in 0..MaxCoord }

ProbeCoords == { Fin(i) : i \in -1..(MaxBox + 1) } \cup { NaN }

ProbePoints == { Point(x, y) : x \in ProbeCoords, y \in ProbeCoords }

(***************************************************************************)
(* Actions on a cell                                                       *)
(***************************************************************************)
CellInit ==
    /\ ctor = [kind |-> "none", arg |-> <<>>]
    /\ cell = NoCell
    /\ call = NoCall

New ==
    /\ ctor.kind = "none"
    /\ \E b \in 1..MaxBox :
          /\ ctor' = [kind |-> "new", arg |-> b]
          /\ cell' = new(Fin(b))
    /\ UNCHANGED <<call, queueVars, lloydVars>>

\* Cell::try_from(boundary)
Construct(boundary) ==
    /\ ctor' = [kind |-> "try_from", arg |-> boundary]
    /\ cell' = try_from(boundary)
    /\ UNCHANGED <<call, queueVars, lloydVars>>

GridSeqs(n) == SeqsOfLen(GridPoints, n)

TryFrom ==
    /\ ctor.kind = "none"
    /\ \E n \in 0..MaxVerts : \E boundary \in GridSeqs(n) : Construct(boundary)

\* contains and area borrow the cell immutably: a behaviour records one call
\* on the constructed cell
ContainsIn(S) ==
    /\ cell.status = "ok"
    /\ call.op = "none"
    /\ \E point \in S :
          LET r == contains(cell.boundary, point)
          IN  call' = [op |-> "contains", arg |-> point, ret |-> r.ret,
                       visited |-> r.visited]
    /\ UNCHANGED <<ctor, cell, queueVars, lloydVars>>

Contains == ContainsIn(ProbePoints)

Area ==
    /\ cell.status = "ok"
    /\ call.op = "none"
    /\ call' = [op |-> "area", arg |-> <<>>, ret |-> area(cell.boundary),
                visited |-> Len(cell.boundary)]
    /\ UNCHANGED <<ctor, cell, queueVars, lloydVars>>

QueueIdle ==
    /\ queue = {}
    /\ nextId = 1
    /\ invalidated = {}
    /\ popped = [kind |-> "none"]

LloydIdle ==
    /\ lloyd = [state |-> "idle"]
    /\ cent = [state |-> "idle"]

Init == CellInit /\ QueueIdle /\ LloydIdle

Next == New \/ TryFrom \/ Contains \/ Area

Spec == Init /\ [][Next]_vars

(***************************************************************************)
(* Cell::contains of a point with a NaN coordinate, on cells whose         *)
(* vertices may hold NaN themselves                                        *)
(***************************************************************************)
NaNGridCoords == { Fin(i) : i \in 0..MaxCoord } \cup { NaN }

NaNGridPoints == { Point(x, y) : x \in NaNGridCoords, y \in NaNGridCoords }

NaNGridSeqs(n) == SeqsOfLen(NaNGridPoints, n)

NaNProbes == { p \in ProbePoints : HasNaN(p) }

TryFromNaN ==
    /\ ctor.kind = "none"
    /\ \E n \in 0..MaxVerts : \E boundary \in NaNGridSeqs(n) : Construct(boundary)

ContainsNaN == ContainsIn(NaNProbes)

NextNaN == New \/ TryFromNaN \/ ContainsNaN

SpecNaN == Init /\ [][NextNaN]_vars

(***************************************************************************)
(* Cell::area on larger polygons                                           *)
(***************************************************************************)
AreaPoints == { Point(Fin(x), Fin(y)) : x \in 0..MaxAreaCoord, y \in 0..MaxAreaCoord }

AreaSeqs(n) == SeqsOfLen(AreaPoints, n)

TryFromArea ==
    /\ ctor.kind = "none"
    /\ \E n \in 0..MaxVerts : \E boundary \in AreaSeqs(n) : Construct(boundary)

NextArea == New \/ TryFromArea \/ Area

SpecArea == Init /\ [][NextArea]_vars

(***************************************************************************)
(* Event queue: push, invalidate, pop_min over site and circle events      *)
(***************************************************************************)
EventKinds == { "Site", "Circle" }

EventYs == { 0, 1 }

EventXs == { 0, 1 }

\* the queue order: sweep-y, then x, then Site before Circle, then age
EventKey(e) == <<e.y, e.x, IF e.kind = "Site" THEN 0 ELSE 1, e.id>>

RECURSIVE KeyLess(_, _, _)
KeyLess(a, b, i) ==
    IF i > Len(a) THEN FALSE
    ELSE IF a[i] # b[i] THEN a[i] < b[i]
    ELSE KeyLess(a, b, i + 1)

EventLess(a, b) == KeyLess(EventKey(a), EventKey(b), 1)

MinEvent(q) == CHOOSE m \in q : \A e \in q : e = m \/ EventLess(m, e)

push(q, e) == q \cup { e }

\* the event stays queued, marked invalid
invalidate(q, id) ==
    { IF e.id = id /\ e.kind = "Circle" THEN [e EXCEPT !.valid = FALSE] ELSE e : e \in q }

\* faulty variant: the minimum is returned whether or not it is still valid
RECURSIVE pop_min_any(_)
pop_min_any(q) ==
    IF q = {} THEN [ret |-> [kind |-> "None"], queue |-> q]
    ELSE LET m == MinEvent(q)
         IN  [ret |-> [kind |-> "Some", event |-> m], queue |-> q \ { m }]

\* invalid events are discarded until a valid one, or nothing, is left
RECURSIVE pop_min(_)
pop_min(q) ==
    IF q = {} THEN [ret |-> [kind |-> "None"], queue |-> q]
    ELSE LET m == MinEvent(q)
         IN  IF m.valid
             THEN [ret |-> [kind |-> "Some", event |-> m], queue |-> q \ { m }]
             ELSE pop_min(q \ { m })

Push ==
    /\ nextId <= MaxEvents
    /\ \E kind \in EventKinds, y \in EventYs, x \in EventXs :
          queue' = push(queue, [id |-> nextId, kind |-> kind, y |-> y, x |-> x,
                                valid |-> TRUE])
    /\ nextId' = nextId + 1
    /\ UNCHANGED <<invalidated, popped, cellVars, lloydVars>>

Invalidate ==
    /\ \E e \in queue :
          /\ e.kind = "Circle"
          /\ e.valid
          /\ queue' = invalidate(queue, e.id)
          /\ invalidated' = invalidated \cup { e.id }
    /\ UNCHANGED <<nextId, popped, cellVars, lloydVars>>

PopMin ==
    /\ LET r == pop_min(queue)
       IN  /\ popped' = r.ret
           /\ queue' = r.queue
    /\ UNCHANGED <<nextId, invalidated, cellVars, lloydVars>>

NextQueue == Push \/ Invalidate \/ PopMin

SpecQueue == Init /\ [][NextQueue]_vars

(***************************************************************************)
(* Cell::contains on simple polygons                                       *)
(***************************************************************************)
\* sign of the turn a -> b -> c, on integer coordinates
Orient(a, b, c) ==
    Sgn((b.x.n - a.x.n) * (c.y.n - a.y.n) - (b.y.n - a.y.n) * (c.x.n - a.x.n))

Min2(i, j) == IF i < j THEN i ELSE j

Max2(i, j) == IF i < j THEN j ELSE i

\* c, known to be on the line through a and b, lies between them
InBox(a, b, c) ==
    /\ Min2(a.x.n, b.x.n) <= c.x.n /\ c.x.n <= Max2(a.x.n, b.x.n)
    /\ Min2(a.y.n, b.y.n) <= c.y.n /\ c.y.n <= Max2(a.y.n, b.y.n)

OnSegment(a, b, c) == Orient(a, b, c) = 0 /\ InBox(a, b, c)

SegmentsMeet(a, b, c, d) ==
    \/ (Orient(a, b, c) # Orient(a, b, d) /\ Orient(c, d, a) # Orient(c, d, b))
    \/ OnSegment(a, b, c)
    \/ OnSegment(a, b, d)
    \/ OnSegment(c, d, a)
    \/ OnSegment(c, d, b)

\* a simple polygon: distinct vertices, consecutive edges that share only
\* their common vertex, and no other two edges that touch
IsSimple(poly) ==
    LET n == Len(poly)
        nxt(i) == (i % n) + 1
    IN  /\ n >= 3
        /\ \A i, j \in 1..n : i < j => poly[i] # poly[j]
        /\ \A i \in 1..n :
              LET a == poly[i]
                  b == poly[nxt(i)]
                  c == poly[nxt(nxt(i))]
              IN  ~(Orient(a, b, c) = 0 /\ InBox(b, c, a)) /\ ~(Orient(a, b, c) = 0 /\ InBox(a, b, c))
        /\ \A i, j \in 1..n :
              (i < j /\ nxt(i) # j /\ nxt(j) # i)
                  => ~SegmentsMeet(poly[i], poly[nxt(i)], poly[j], poly[nxt(j)])

PolyPoints == { Point(Fin(x), Fin(y)) : x \in 0..PolyMaxX, y \in 0..PolyMaxY }

SimplePolygons(n) == { poly \in SeqsOfLen(PolyPoints, n) : IsSimple(poly) }

TryFromPoly ==
    /\ ctor.kind = "none"
    /\ \E n \in 0..PolyVerts : \E boundary \in SimplePolygons(n) : Construct(boundary)

ContainsPoly == ContainsIn(PolyPoints)

NextPoly == TryFromPoly \/ ContainsPoly

SpecPoly == Init /\ [][NextPoly]_vars

(***************************************************************************)
(* Voronoi diagram and polygon extraction, as the diagram's definition:    *)
(* the face of a site is the boundary cell cut by the bisector half-plane  *)
(* of every other site; one face per distinct site, in input order         *)
(***************************************************************************)
Dot(ax, ay, p) == FAdd(FMul(ax, p.x), FMul(ay, p.y))

\* the boundary polygon poly cut to the half-plane ax*x + ay*y <= c
RECURSIVE clip_from(_, _, _, _, _)
clip_from(poly, i, ax, ay, c) ==
    IF i > Len(poly) THEN <<>>
    ELSE LET P == poly[i]
             Q == poly[(i % Len(poly)) + 1]
             dP == FSub(Dot(ax, ay, P), c)
             dQ == FSub(Dot(ax, ay, Q), c)
             pin == PartialCmp(dP, Fin(0)) \in { "Less", "Equal" }
             qin == PartialCmp(dQ, Fin(0)) \in { "Less", "Equal" }
             t == FDiv(FNeg(dP), FSub(dQ, dP))
             X == Point(FAdd(P.x, FMul(t, FSub(Q.x, P.x))),
                        FAdd(P.y, FMul(t, FSub(Q.y, P.y))))
             out == IF pin /\ qin THEN << Q >>
                    ELSE IF pin THEN << X >>
                    ELSE IF qin THEN << X, Q >>
                    ELSE <<>>
         IN  out \o clip_from(poly, i + 1, ax, ay, c)

\* consecutive repeated vertices (cyclically) kept once
RECURSIVE dedup_from(_, _)
dedup_from(poly, i) ==
    IF i > Len(poly) THEN <<>>
    ELSE LET prev == poly[IF i = 1 THEN Len(poly) ELSE i - 1]
         IN  (IF poly[i] = prev /\ Len(poly) > 1 THEN <<>> ELSE << poly[i] >>)
                 \o dedup_from(poly, i + 1)

clip(poly, ax, ay, c) == dedup_from(clip_from(poly, 1, ax, ay, c), 1)

NormSq(p) == FAdd(FMul(p.x, p.x), FMul(p.y, p.y))

RECURSIVE face_from(_, _, _, _)
face_from(poly, pts, i, j) ==
    IF j > Len(pts) THEN poly
    ELSE IF pts[j] = pts[i] THEN face_from(poly, pts, i, j + 1)
    ELSE face_from(clip(poly,
                        FMul(Fin(2), FSub(pts[j].x, pts[i].x)),
                        FMul(Fin(2), FSub(pts[j].y, pts[i].y)),
                        FSub(NormSq(pts[j]), NormSq(pts[i]))),
                   pts, i, j + 1)

RECURSIVE faces_from(_, _, _)
faces_from(pts, boundary, i) ==
    IF i > Len(pts) THEN <<>>
    ELSE (IF \E j \in 1..(i - 1) : pts[j] = pts[i]
          THEN <<>>
          ELSE << [site |-> i, polygon |-> face_from(boundary, pts, i, 1)] >>)
             \o faces_from(pts, boundary, i + 1)

voronoi(pts, boundary) == [faces |-> faces_from(pts, boundary, 1)]

make_polygons(dcel) == [i \in 1..Len(dcel.faces) |-> dcel.faces[i].polygon]

(***************************************************************************)
(* Lloyd relaxation  (src/src/lloyd.rs)                                    *)
(***************************************************************************)
RECURSIVE centroid_sum(_, _, _)
centroid_sum(pts, i, pt_sum) ==
    IF i > Len(pts) THEN pt_sum
    ELSE centroid_sum(pts, i + 1, PointAdd(pts[i], pt_sum))

\* faulty variant: the running sum seeded with the first vertex
polygon_centroid_seeded(pts) ==
    PointScale(centroid_sum(pts, 1, IF Len(pts) > 0 THEN pts[1] ELSE Point(Fin(0), Fin(0))),
               FDiv(Fin(1), Fin(Len(pts))))

\* polygon_centroid
polygon_centroid(pts) ==
    PointScale(centroid_sum(pts, 1, Point(Fin(0), Fin(0))),
               FDiv(Fin(1), Fin(Len(pts))))

\* faulty variant: the first face left out
centroids_skip_first(faces) ==
    [i \in 1..(Len(faces) - 1) |-> polygon_centroid(faces[i + 1])]

\* faces.iter().map(|v| polygon_centroid(v)).collect()
centroids(faces) == [i \in 1..Len(faces) |-> polygon_centroid(faces[i])]

\* lloyd_relaxation, with the calls it makes
lloyd_relaxation(pts, boxsize) ==
    LET dcel == voronoi(pts, boxsize.boundary)
        faces == make_polygons(dcel)
    IN  [out |-> centroids(faces), faces |-> faces, voronoiCalls |-> 1]

SitePoints == { Point(Fin(x), Fin(y)) : x \in 0..MaxSite, y \in 0..MaxSite }


Lloyd ==
    /\ lloyd.state = "idle"
    /\ cent.state = "idle"
    /\ \E n \in 1..MaxPts :
       \E pts \in SeqsOfLen(SitePoints, n) :
          LET r == lloyd_relaxation(pts, new(Fin(MaxSite)))
          IN  lloyd' = [state |-> "done", pts |-> pts, faces |-> r.faces,
                        out |-> r.out, voronoiCalls |-> r.voronoiCalls]
    /\ UNCHANGED <<cent, cellVars, queueVars>>

Centroid ==
    /\ lloyd.state = "idle"
    /\ cent.state = "idle"
    /\ \E n \in 0..MaxPolyLen :
       \E pts \in SeqsOfLen(SitePoints, n) :
          cent' = [state |-> "done", arg |-> pts, ret |-> polygon_centroid(pts)]
    /\ UNCHANGED <<lloyd, cellVars, queueVars>>

NextLloyd == Lloyd \/ Centroid

SpecLloyd == Init /\ [][NextLloyd]_vars

(***************************************************************************)
(* Claims on the cell specification                                        *)
(***************************************************************************)
\* 0 <= a <= b for a finite value a and an integer b
Within(a, b) == 0 <= a.n /\ a.n <= b * a.d

\* C1: on the square built by Cell::new(b), b > 0, contains(p) is true for a
\* finite p exactly when 0 <= p.x <= b and 0 <= p.y <= b
C1_SquareContains ==
    (ctor.kind = "new" /\ call.op = "contains" /\ IsFinite(call.arg))
        => (call.ret <=> (Within(call.arg.x, ctor.arg) /\ Within(call.arg.y, ctor.arg)))

\* a corner of the square is reported inside
C1_Witness ==
    /\ ctor.kind = "new"
    /\ call.op = "contains"
    /\ call.arg = Point(Fin(ctor.arg), Fin(ctor.arg))
    /\ call.ret = TRUE

\* C4: a query point with a NaN coordinate makes contains return false on
\* every cell, after visiting each edge at most once
C4_NaNNotContained ==
    (call.op = "contains" /\ HasNaN(call.arg))
        => (call.ret = FALSE /\ call.visited <= Len(cell.boundary))

\* a NaN x on an edge whose y range holds the point, after an edge with a NaN
\* end was passed over: the loop stops there
C4_Witness ==
    /\ call.op = "contains"
    /\ HasNaN(cell.boundary[1])
    /\ call.arg.x.k = "nan"
    /\ call.arg.y.k = "fin"
    /\ call.visited >= 2
    /\ call.visited < Len(cell.boundary)
    /\ call.ret = FALSE

\* C5: TryFrom gives an error and no cell for fewer than 3 vertices, and for
\* 3 or more a cell whose boundary is the given sequence; only a constructed
\* cell is ever used
C5_TryFromChecksLength ==
    /\ ctor.kind = "try_from" =>
          IF Len(ctor.arg) < 3
          THEN cell.status = "err" /\ cell.boundary = <<>>
          ELSE cell.status = "ok" /\ cell.boundary = ctor.arg
    /\ call.op # "none" => (cell.status = "ok" /\ Len(cell.boundary) >= 3)

\* two vertices are refused
C5_Witness ==
    /\ ctor.kind = "try_from"
    /\ Len(ctor.arg) = 2
    /\ cell.status = "err"

(***************************************************************************)
(* Claims on Cell::area                                                    *)
(***************************************************************************)
\* twice the signed area by the shoelace formula, on integer coordinates
RECURSIVE Shoelace2(_, _)
Shoelace2(poly, i) ==
    IF i > Len(poly) THEN 0
    ELSE LET a == poly[i]
             b == poly[(i % Len(poly)) + 1]
         IN  (a.x.n * b.y.n - b.x.n * a.y.n) + Shoelace2(poly, i + 1)

Rotated(poly, r) == [i \in 1..Len(poly) |-> poly[((i + r - 1) % Len(poly)) + 1]]

Reversed(poly) == [i \in 1..Len(poly) |-> poly[Len(poly) + 1 - i]]

\* C10: area() is the unsigned shoelace area over all n edges: non-negative,
\* the same for either orientation and any starting vertex, and b*b for
\* Cell::new(b)
C10_AreaShoelace ==
    call.op = "area" =>
        /\ call.ret.k = "fin"
        /\ call.ret.n >= 0
        /\ call.ret = Ratio(Abs(Shoelace2(cell.boundary, 1)), 2)
        /\ \A r \in 0..(Len(cell.boundary) - 1) :
              /\ area(Rotated(cell.boundary, r)) = call.ret
              /\ area(Reversed(Rotated(cell.boundary, r))) = call.ret
        /\ ctor.kind = "new" => call.ret = Fin(ctor.arg * ctor.arg)

\* the area of a polygon listed clockwise, half-integral
C10_Witness ==
    /\ call.op = "area"
    /\ ctor.kind = "try_from"
    /\ Shoelace2(cell.boundary, 1) < 0
    /\ call.ret.n > 0
    /\ call.ret.d = 2

(***************************************************************************)
(* Claims on Cell::contains over simple polygons                           *)
(***************************************************************************)
\* p lies on an edge of poly
OnBoundary(p, poly) ==
    \E i \in 1..Len(poly) : OnSegment(poly[i], poly[(i % Len(poly)) + 1], p)

\* the crossing-number test with half-open edges: an edge counts when the
\* leftward ray from p meets it and a.y <= p.y < b.y (or b.y <= p.y < a.y)
RECURSIVE Crossings(_, _, _)
Crossings(p, poly, i) ==
    IF i > Len(poly) THEN 0
    ELSE LET a == poly[i]
             b == poly[(i % Len(poly)) + 1]
             up == a.y.n <= p.y.n /\ p.y.n < b.y.n
             down == b.y.n <= p.y.n /\ p.y.n < a.y.n
             hit == (up /\ Orient(a, b, p) < 0) \/ (down /\ Orient(a, b, p) > 0)
         IN  (IF hit THEN 1 ELSE 0) + Crossings(p, poly, i + 1)

InsideRef(p, poly) == Crossings(p, poly, 1) % 2 = 1

\* C2: every point on an edge of a simple polygon is contained
C2_EdgePointsContained ==
    (call.op = "contains" /\ IsSimple(cell.boundary) /\ OnBoundary(call.arg, cell.boundary))
        => call.ret = TRUE

\* C3 (on simple polygons): every vertex of the boundary is contained
C3_VerticesContained ==
    (call.op = "contains" /\ IsSimple(cell.boundary)
        /\ \E i \in 1..Len(cell.boundary) : cell.boundary[i] = call.arg)
        => call.ret = TRUE

\* C9: for a point off the boundary of a simple polygon at the height of one
\* of its vertices, contains agrees with the half-open crossing test
C9_VertexHeightCrossings ==
    (call.op = "contains" /\ IsSimple(cell.boundary)
        /\ ~OnBoundary(call.arg, cell.boundary)
        /\ \E i \in 1..Len(cell.boundary) : cell.boundary[i].y = call.arg.y)
        => (call.ret <=> InsideRef(call.arg, cell.boundary))

(***************************************************************************)
(* Claims on the event queue                                               *)
(***************************************************************************)
\* C6: pop_min never returns an invalidated circle event: it discards the
\* invalid events and returns the minimum by (sweep-y, x) of the events still
\* valid, or nothing when no valid event remains
C6_PopSkipsInvalid ==
    [][PopMin =>
          /\ popped'.kind = "Some" =>
                /\ popped'.event \in queue
                /\ popped'.event.valid
                /\ popped'.event.id \notin invalidated
                /\ \A e \in queue :
                      (e.valid /\ e # popped'.event) => EventLess(popped'.event, e)
          /\ popped'.kind = "None" => \A e \in queue : ~e.valid
          /\ \A e \in queue' : e \in queue /\ (popped'.kind = "Some" => EventLess(popped'.event, e))
      ]_vars

\* a pop that has discarded an invalidated event and returned a valid one
C6_Witness ==
    /\ popped.kind = "Some"
    /\ \E i \in invalidated :
          /\ i < popped.event.id
          /\ \A e \in queue : e.id # i

(***************************************************************************)
(* Claims on the Lloyd relaxation                                          *)
(***************************************************************************)
RECURSIVE SumX(_, _)
SumX(pts, i) == IF i = 0 THEN Fin(0) ELSE FAdd(SumX(pts, i - 1), pts[i].x)

RECURSIVE SumY(_, _)
SumY(pts, i) == IF i = 0 THEN Fin(0) ELSE FAdd(SumY(pts, i - 1), pts[i].y)

\* the arithmetic mean of the vertices
MeanOf(pts) ==
    Point(FDiv(SumX(pts, Len(pts)), Fin(Len(pts))), FDiv(SumY(pts, Len(pts)), Fin(Len(pts))))

Distinct(pts) == \A i, j \in 1..Len(pts) : i # j => pts[i] # pts[j]

C8_CentroidIsMean ==
    (cent.state = "done" /\ Len(cent.arg) > 0) =>
        /\ cent.ret = MeanOf(cent.arg)
        /\ \A perm \in Permutations(1..Len(cent.arg)) :
              polygon_centroid([i \in 1..Len(cent.arg) |-> cent.arg[perm[i]]]) = cent.ret

\* a list with a repeated vertex, whose mean is pulled toward it
C8_Witness ==
    /\ cent.state = "done"
    /\ Len(cent.arg) = 3
    /\ cent.arg[1] = cent.arg[2]
    /\ cent.arg[1] # cent.arg[3]
    /\ cent.ret.x.d = 3

====
